---- MODULE Spec2Model ----
(***************************************************************************)
(* ThingiverseService (src/thingiverse/ThingiverseService.py): the bridge  *)
(* between the Thingiverse API client and the QML user interface.          *)
(*                                                                         *)
(* The service runs on the single Qt UI thread: every slot and every       *)
(* callback is one atomic action here.  The API client is asynchronous: a  *)
(* call registers callbacks and returns; the reply arrives later, in any   *)
(* order, as one call of the registered success or failure callback.  The  *)
(* replies still awaited are `requests`.  The message box of               *)
(* _onRequestFailed blocks in exec() while other callbacks may run; the    *)
(* handler reads and writes no field of the service, so those callbacks    *)
(* are the steps after it.                                                 *)
(***************************************************************************)
EXTENDS Naturals, Sequences, FiniteSets

(***************************************************************************)
(* Bounds of the model and input domains.                                  *)
(***************************************************************************)
\* Calls of the slots that call the API client (search, addSearchPage,
\* showThingDetails, downloadThingFile) in one run.
MaxCalls == 2
\* Largest number of things in one search reply.
MaxItems == 2
\* Largest number of files in one files reply of the file type check.
MaxFiles == 2

\* Search terms typed by the user.
Terms == {"foo", "bar"}
\* Thing identifiers the user inspects.
ThingIds == {1, 2}
\* Remote file identifiers.
FileIds == {7}
\* Bytes received for a download.
FileBytes == {"b1", "b2"}
\* Random middle part of a temporary file name (tempfile picks it).
TempStems == {<<"t", "m", "p", "x">>}

\* File names are sequences of characters.
FileNames ==
    { <<"a", ".", "s">>,      \* a.s   supported extension
      <<"b", ".", "S">>,      \* b.S   upper case extension
      <<"a", ".", "t">>,      \* a.t   another extension
      <<".", "s">>,           \* .s    a leading dot only
      <<"a", ".">>,           \* a.    a trailing dot
      <<"a">>,                \* a     no dot
      <<".", "/", "s">>,      \* ./s   a dot in a directory part only
      <<"t", "/", "a", ".", "s">> }   \* t/a.s a directory part, then a.s

\* The names of the files the user downloads: a plain name and a name with a
\* directory part (which the file type check of line 163 lets through).
DownloadNames == { <<"a", ".", "s">>, <<"t", "/", "a", ".", "s">> }

\* What the host's mesh file handler may report as readable extensions
\* (the keys of getSupportedFileTypesRead()).
HostFileTypes == { {<<"s">>}, {<<"s">>, <<"t">>} }

\* Optional[T]: None is the empty sequence, a value v is <<v>>.
None == <<>>
Some(v) == <<v>>
IsNone(o) == o = <<>>

(***************************************************************************)
(* Python values.  A value is a JSONObject (an instance, always truthy,    *)
(* whose attributes are its __dict__: a record for a thing or a file, a    *)
(* set of (name, value) pairs for an error) or a plain str (no __dict__,   *)
(* truthy iff not empty).                                                  *)
(***************************************************************************)
JSONObject(attributes) == [type |-> "JSONObject", dict |-> attributes, value |-> ""]
\* [x.__dict__ for x in list]
Dicts(list) == [i \in 1..Len(list) |-> list[i].dict]
Str(text) == [type |-> "str", dict |-> {}, value |-> text]

\* The error argument of a failure callback: None or a value.
ErrorPayloads ==
    { None,
      Some(JSONObject({<<"error", "Not Found">>})),   \* a record with a message
      Some(JSONObject({<<"code", "404">>})),          \* a record without one
      Some(Str("timeout")),                           \* a raw error value
      Some(Str("")) }                                 \* a raw, empty value

\* bool(error), for an Optional value
Truthy(error) ==
    /\ ~IsNone(error)
    /\ (error[1].type = "JSONObject" \/ error[1].value # "")
\* hasattr(error, name)
HasAttr(error, name) ==
    /\ error[1].type = "JSONObject"
    /\ \E pair \in error[1].dict : pair[1] = name
\* getattr(error, name)
GetAttr(error, name) ==
    Str((CHOOSE pair \in error[1].dict : pair[1] = name)[2])
\* Whether error.__dict__ exists.
HasDict(error) == error[1].type = "JSONObject"

(***************************************************************************)
(* pathlib.Path(name).suffix.lower().strip(".") on character sequences.    *)
(***************************************************************************)
\* str.lower(), on the characters of the model's alphabet.
LowerChar(c) ==
    CASE c = "A" -> "a"
      [] c = "B" -> "b"
      [] c = "S" -> "s"
      [] c = "T" -> "t"
      [] OTHER -> c
Lower(s) == [i \in 1..Len(s) |-> LowerChar(s[i])]

\* str.rfind(ch), 1-based; 0 when ch does not occur.
RFind(s, ch) ==
    IF \E i \in 1..Len(s) : s[i] = ch
    THEN CHOOSE i \in 1..Len(s) : s[i] = ch /\ \A j \in (i+1)..Len(s) : s[j] # ch
    ELSE 0

\* str.split(sep) for a one character separator.
RECURSIVE Split(_, _)
Split(s, sep) ==
    IF \E i \in 1..Len(s) : s[i] = sep
    THEN LET i == CHOOSE k \in 1..Len(s) : s[k] = sep /\ \A j \in 1..(k-1) : s[j] # sep
         IN  <<SubSeq(s, 1, i - 1)>> \o Split(SubSeq(s, i + 1, Len(s)), sep)
    ELSE <<s>>

\* PurePath.name: the final path component; empty and "." components are
\* dropped when the path is parsed.
PathName(path) ==
    LET drop(part) == part # <<>> /\ part # <<".">>
        parts == SelectSeq(Split(path, "/"), drop)
    IN  IF parts = <<>> THEN <<>> ELSE parts[Len(parts)]

\* PurePath.suffix: from the last "." of the name, unless that "." is the
\* first or the last character of the name.
Suffix(path) ==
    LET name == PathName(path)
        i == RFind(name, ".")
    IN  IF 1 < i /\ i < Len(name) THEN SubSeq(name, i, Len(name)) ELSE <<>>

\* str.strip(ch): ch removed from both ends.
RECURSIVE Strip(_, _)
Strip(s, ch) ==
    IF s = <<>> THEN s
    ELSE IF s[1] = ch THEN Strip(Tail(s), ch)
    ELSE IF s[Len(s)] = ch THEN Strip(SubSeq(s, 1, Len(s) - 1), ch)
    ELSE s

\* The file type of a thing file, as line 163 computes it.
\* (the same without lower())
FileTypeCaseSensitive(file_name) == Strip(Suffix(file_name), ".")
FileType(file_name) == Strip(Lower(Suffix(file_name)), ".")

\* The list comprehension of lines 163-164.
SupportedFiles(thing_files, supported) ==
    LET keep(f) == FileType(f.dict.name) \in supported
    IN  SelectSeq(thing_files, keep)

(***************************************************************************)
(* State.                                                                  *)
(***************************************************************************)
VARIABLES
    \* The fields of ThingiverseService.
    things,                 \* _things: the search results
    search_page,            \* _search_page
    search_terms,           \* _search_terms
    thing_details,          \* _thing_details: None or the active thing
    thing_files,            \* _thing_files: the active thing's files
    is_downloading,         \* _is_downloading
    supported_file_types,   \* _supported_file_types
    \* The API client: the replies still awaited, in the order of the calls,
    \* and how many calls of each method were made.
    requests,
    sent,
    last_search_call,       \* None or the latest search call's (terms, page)
    latest_search,          \* the number of the search call that the latest
                            \* search() made (0 before the first)
    stale,                  \* the numbers of the getThing calls still awaited
                            \* that were made before the active thing was last
                            \* cleared
    files_of,               \* the thing whose files reply _thing_files was
                            \* last taken from (0 before the first)
    \* What the latest step did, as a test double of the collaborators sees it.
    op,                     \* the slot or callback that ran
    args,                   \* its arguments
    issued,                 \* the API calls it made
    emitted,                \* the signals it emitted, each with the value of
                            \* the notified property at that moment
    loaded,                 \* the files it passed to readLocalFile
    dialogs,                \* the message boxes it showed
    answered,               \* None or the awaited reply it was the callback of
    raised                  \* the exception that escaped it ("" when none)

service == <<things, search_page, search_terms, thing_details, thing_files,
             is_downloading, supported_file_types>>
client == <<requests, sent, last_search_call, latest_search, stale, files_of>>
observed == <<op, args, issued, emitted, loaded, dialogs, answered, raised>>
vars == <<service, client, observed>>

ApiMethods == {"search", "getThing", "getThingFiles", "downloadThingFile"}

\* One awaited reply: the method called, the number of that call among the
\* calls of its method, and the call's arguments (those of the other
\* methods keep their blank values).  A download carries the file name its
\* success callback (the lambda of line 148) has bound.
Request(method, terms, page, thing_id, file_id, file_name) ==
    [method |-> method, seq |-> sent[method] + 1, terms |-> terms, page |-> page,
     thing_id |-> thing_id, file_id |-> file_id, file_name |-> file_name]
SearchRequest(terms, page) == Request("search", terms, page, 0, 0, <<>>)
ThingRequest(thing_id) == Request("getThing", "", 0, thing_id, 0, <<>>)
FilesRequest(thing_id) == Request("getThingFiles", "", 0, thing_id, 0, <<>>)
DownloadRequest(file_id, file_name) ==
    Request("downloadThingFile", "", 0, 0, file_id, file_name)

Count(calls) ==
    [m \in ApiMethods |-> sent[m] + Cardinality({i \in 1..Len(calls) : calls[i].method = m})]

RemoveAt(s, i) == SubSeq(s, 1, i - 1) \o SubSeq(s, i + 1, Len(s))

(***************************************************************************)
(* The properties the user interface reads, lines 57-95.                   *)
(***************************************************************************)
thingsList == Dicts(things)
activeThing == IF Truthy(thing_details) THEN Some(thing_details[1].dict) ELSE None
activeThingFiles == Dicts(thing_files)
hasActiveThing == Truthy(thing_details)
isDownloading == is_downloading

\* A signal emission, with what the notified property reads at that moment.
Emit(signal, value) == [signal |-> signal, value |-> value]

\* The first page of a search (line 106).
FirstPage == 1

Init ==
    /\ things = <<>>
    /\ search_page = FirstPage
    /\ search_terms = ""
    /\ thing_details = None
    /\ thing_files = <<>>
    /\ is_downloading = FALSE
    /\ supported_file_types = {}
    /\ requests = <<>>
    /\ sent = [m \in ApiMethods |-> 0]
    /\ last_search_call = None
    /\ latest_search = 0
    /\ stale = {}
    /\ files_of = 0
    /\ op = "__init__"
    /\ args = <<>>
    /\ issued = <<>>
    /\ emitted = <<>>
    /\ loaded = <<>>
    /\ dialogs = <<>>
    /\ answered = None
    /\ raised = ""

\* The numbers of the getThing calls still awaited.
AwaitedThings ==
    {requests[i].seq : i \in {k \in 1..Len(requests) : requests[k].method = "getThing"}}

\* The slot calls that called the API client so far.
CallsMade == sent["search"] + sent["getThing"] + sent["downloadThingFile"]

\* A step that calls the API client with `calls` and nothing of the host.
Calls(calls) ==
    /\ calls # <<>> => CallsMade < MaxCalls
    /\ requests' = requests \o calls
    /\ files_of' = files_of
    /\ sent' = Count(calls)
    /\ issued' = calls
    /\ loaded' = <<>>
    /\ dialogs' = <<>>
    /\ answered' = None
    /\ raised' = ""

\* A callback step: the awaited reply i is consumed.
Consumes(i) ==
    /\ requests' = RemoveAt(requests, i)
    /\ UNCHANGED <<sent, last_search_call, latest_search>>
    /\ stale' = IF requests[i].method = "getThing" THEN stale \ {requests[i].seq} ELSE stale
    /\ issued' = <<>>
    /\ answered' = Some(requests[i])

(***************************************************************************)
(* The slots.                                                              *)
(***************************************************************************)
\* updateSupportedFileTypes, lines 50-55.
updateSupportedFileTypes ==
    /\ \E types \in HostFileTypes : supported_file_types' = types
    /\ op' = "updateSupportedFileTypes"
    /\ args' = <<>>
    /\ emitted' = <<>>
    /\ Calls(<<>>)
    /\ UNCHANGED <<things, search_page, search_terms, thing_details, thing_files,
                   is_downloading, last_search_call, latest_search, stale>>

\* _clearSearchResults, lines 188-193: the list it leaves.
\* (the same with the list left as it is)
KeptResults(list) == list
ClearedResults(list) == <<>>

\* search, lines 97-109, with _clearSearchResults and hideThingDetails.
search(terms) ==
    /\ things' = ClearedResults(things)
    /\ thing_details' = None
    /\ search_page' = FirstPage
    /\ search_terms' = terms
    /\ Calls(<<SearchRequest(search_terms', search_page')>>)
    /\ last_search_call' = Some([terms |-> search_terms', page |-> search_page'])
    /\ latest_search' = sent'["search"]
    /\ stale' = AwaitedThings
    /\ op' = "search"
    /\ args' = <<terms>>
    /\ emitted' = <<Emit("thingsChanged", thingsList'),
                    Emit("activeThingChanged", activeThing')>>
    /\ UNCHANGED <<thing_files, is_downloading, supported_file_types>>

\* addSearchPage, lines 111-119.
\* (the increment of line 117 left out)
SamePage(page) == page
NextPage(page) == page + 1
addSearchPage ==
    /\ search_page' = NextPage(search_page)
    /\ Calls(<<SearchRequest(search_terms, search_page')>>)
    /\ last_search_call' = Some([terms |-> search_terms, page |-> search_page'])
    /\ op' = "addSearchPage"
    /\ args' = <<>>
    /\ emitted' = <<>>
    /\ UNCHANGED <<things, search_terms, thing_details, thing_files,
                   is_downloading, supported_file_types, latest_search, stale>>

\* showThingDetails, lines 121-128.
\* (the details of the thing shown before cleared first)
showThingDetailsClearsFirst(thing_id) ==
    /\ thing_details' = None
    /\ thing_files' = <<>>
    /\ Calls(<<ThingRequest(thing_id), FilesRequest(thing_id)>>)
    /\ op' = "showThingDetails"
    /\ args' = <<thing_id>>
    /\ emitted' = <<Emit("activeThingChanged", activeThing'),
                    Emit("activeThingFilesChanged", activeThingFiles')>>
    /\ UNCHANGED <<things, search_page, search_terms, is_downloading,
                   supported_file_types, last_search_call, latest_search, stale>>
showThingDetails(thing_id) ==
    /\ Calls(<<ThingRequest(thing_id), FilesRequest(thing_id)>>)
    /\ op' = "showThingDetails"
    /\ args' = <<thing_id>>
    /\ emitted' = <<>>
    /\ UNCHANGED <<service, last_search_call, latest_search, stale>>

\* (hideThingDetails taken for a reset of the whole detail page, the
\* downloading flag included)
hideThingDetailsAndDownload ==
    /\ thing_details' = None
    /\ is_downloading' = FALSE
    /\ op' = "hideThingDetails"
    /\ args' = <<>>
    /\ emitted' = <<Emit("activeThingChanged", activeThing'),
                    Emit("downloadingStateChanged", isDownloading')>>
    /\ Calls(<<>>)
    /\ stale' = AwaitedThings
    /\ UNCHANGED <<things, search_page, search_terms, thing_files,
                   supported_file_types, last_search_call, latest_search>>

\* (hideThingDetails taken to clear the active files with the active thing)
hideThingDetailsAndFiles ==
    /\ thing_details' = None
    /\ thing_files' = <<>>
    /\ op' = "hideThingDetails"
    /\ args' = <<>>
    /\ emitted' = <<Emit("activeThingChanged", activeThing'),
                    Emit("activeThingFilesChanged", activeThingFiles')>>
    /\ Calls(<<>>)
    /\ stale' = AwaitedThings
    /\ UNCHANGED <<things, search_page, search_terms, is_downloading,
                   supported_file_types, last_search_call, latest_search>>

\* hideThingDetails, lines 130-136.
hideThingDetails ==
    /\ thing_details' = None
    /\ op' = "hideThingDetails"
    /\ args' = <<>>
    /\ emitted' = <<Emit("activeThingChanged", activeThing')>>
    /\ Calls(<<>>)
    /\ stale' = AwaitedThings
    /\ UNCHANGED <<things, search_page, search_terms, thing_files,
                   is_downloading, supported_file_types, last_search_call, latest_search>>

\* downloadThingFile, lines 138-148.
\* (the signal emitted before the flag is stored)
downloadThingFileEmitsFirst(file_id, file_name) ==
    /\ is_downloading' = TRUE
    /\ Calls(<<DownloadRequest(file_id, file_name)>>)
    /\ op' = "downloadThingFile"
    /\ args' = <<file_id, file_name>>
    /\ emitted' = <<Emit("downloadingStateChanged", isDownloading)>>
    /\ UNCHANGED <<things, search_page, search_terms, thing_details, thing_files,
                   supported_file_types, last_search_call, latest_search, stale>>
downloadThingFile(file_id, file_name) ==
    /\ is_downloading' = TRUE
    /\ Calls(<<DownloadRequest(file_id, file_name)>>)
    /\ op' = "downloadThingFile"
    /\ args' = <<file_id, file_name>>
    /\ emitted' = <<Emit("downloadingStateChanged", isDownloading')>>
    /\ UNCHANGED <<things, search_page, search_terms, thing_details, thing_files,
                   supported_file_types, last_search_call, latest_search, stale>>

(***************************************************************************)
(* The replies of the API client.                                          *)
(***************************************************************************)
\* A search reply for (terms, page) with n things: a thing is named by the
\* terms and page it was found for and its place in that page.
SearchReply(request, n) ==
    [k \in 1..n |->
        JSONObject([terms |-> request.terms, page |-> request.page, place |-> k])]
\* The thing of a getThing reply.
ThingReply(request) == JSONObject([id |-> request.thing_id])
\* The file lists a getThingFiles reply may carry: all of at most n files.
RECURSIVE AllFileLists(_)
AllFileLists(n) ==
    IF n = 0 THEN {<<>>}
    ELSE AllFileLists(n - 1) \cup
         {Append(l, JSONObject([name |-> name])) :
            l \in {x \in AllFileLists(n - 1) : Len(x) = n - 1}, name \in FileNames}
\* Some of them, for the runs that are not about the file types.
File(name) == JSONObject([name |-> name])
FileLists ==
    { <<>>,
      <<File(<<"a", ".", "s">>), File(<<"a", ".", "t">>), File(<<"b", ".", "S">>)>>,
      <<File(<<".", "s">>), File(<<"a">>), File(<<"a", ".", "s">>)>> }
\* tempfile.NamedTemporaryFile(suffix=file_name, delete=False), line 173.
\* The file is created at the directory, "tmp" and a random part (together
\* the stem) followed by the suffix.  With a "/" in the suffix the path
\* leads through a directory that does not exist.  When everything from
\* the first "/" on is "/" (as in "a/" or "a//") the path names a directory
\* to create and the call raises IsADirectoryError; with anything after the
\* first "/" but "/" (as in "t/a.s" or "t/a/") it raises FileNotFoundError.
TempFileError(file_name) ==
    LET slashes == {k \in 1..Len(file_name) : file_name[k] = "/"}
    IN  IF slashes = {} THEN ""
        ELSE LET first == CHOOSE k \in slashes : \A j \in slashes : k <= j
             IN  IF \A k \in first..Len(file_name) : file_name[k] = "/"
                 THEN "IsADirectoryError"
                 ELSE "FileNotFoundError"
\* The name of the file created, None when the call raises.
TempName(stem, file_name) ==
    IF TempFileError(file_name) = "" THEN Some(stem \o file_name) ELSE None

(***************************************************************************)
(* The callbacks.                                                          *)
(***************************************************************************)
\* _onSearchFinished, lines 180-186.
\* (the list replaced instead of extended)
Replace(list, more) == more
Extend(list, more) == list \o more
onSearchFinished(i, found) ==
    /\ requests[i].method = "search"
    /\ things' = Extend(things, found)
    /\ Consumes(i)
    /\ files_of' = files_of
    /\ op' = "_onSearchFinished"
    /\ args' = <<found>>
    /\ emitted' = <<Emit("thingsChanged", thingsList')>>
    /\ loaded' = <<>>
    /\ dialogs' = <<>>
    /\ raised' = ""
    /\ UNCHANGED <<search_page, search_terms, thing_details, thing_files,
                   is_downloading, supported_file_types>>

\* _onThingDetailsFinished, lines 150-156.
onThingDetailsFinished(i, thing) ==
    /\ requests[i].method = "getThing"
    /\ thing_details' = Some(thing)
    /\ Consumes(i)
    /\ files_of' = files_of
    /\ op' = "_onThingDetailsFinished"
    /\ args' = <<thing>>
    /\ emitted' = <<Emit("activeThingChanged", activeThing')>>
    /\ loaded' = <<>>
    /\ dialogs' = <<>>
    /\ raised' = ""
    /\ UNCHANGED <<things, search_page, search_terms, thing_files,
                   is_downloading, supported_file_types>>

\* _onThingFilesFinished, lines 158-165.
onThingFilesFinished(i, files) ==
    /\ requests[i].method = "getThingFiles"
    /\ thing_files' = SupportedFiles(files, supported_file_types)
    /\ files_of' = requests[i].thing_id
    /\ Consumes(i)
    /\ op' = "_onThingFilesFinished"
    /\ args' = <<files>>
    /\ emitted' = <<Emit("activeThingFilesChanged", activeThingFiles')>>
    /\ loaded' = <<>>
    /\ dialogs' = <<>>
    /\ raised' = ""
    /\ UNCHANGED <<things, search_page, search_terms, thing_details,
                   is_downloading, supported_file_types>>

\* _onDownloadFinished, lines 167-178, called by the lambda of line 148 with
\* the file name of its own downloadThingFile call.  When the temporary file
\* cannot be created the exception of line 173 escapes: no file is loaded,
\* the flag is not cleared and no signal is emitted.
onDownloadFinished(i, file_bytes, stem) ==
    /\ requests[i].method = "downloadThingFile"
    /\ LET file == TempName(stem, requests[i].file_name)
       IN  IF IsNone(file)
           THEN /\ raised' = TempFileError(requests[i].file_name)
                /\ loaded' = <<>>
                /\ is_downloading' = is_downloading
                /\ emitted' = <<>>
           ELSE /\ raised' = ""
                /\ loaded' = <<[name |-> file[1], contents |-> file_bytes]>>
                /\ is_downloading' = FALSE
                /\ emitted' = <<Emit("downloadingStateChanged", isDownloading')>>
    /\ Consumes(i)
    /\ files_of' = files_of
    /\ op' = "_onDownloadFinished"
    /\ args' = <<file_bytes, requests[i].file_name>>
    /\ dialogs' = <<>>
    /\ UNCHANGED <<things, search_page, search_terms, thing_details, thing_files,
                   supported_file_types>>

\* _onRequestFailed, lines 195-209: the message of line 206 and the message
\* box of lines 201-209.  str(error.__dict__) of line 208 raises
\* AttributeError for a truthy error that has no __dict__, before exec().
ErrorMessage(error) ==
    IF Truthy(error)
    THEN IF HasAttr(error, "error") THEN GetAttr(error, "error") ELSE error[1]
    ELSE Str("Unknown")
DetailedText(error) == IF Truthy(error) THEN Some(error[1].dict) ELSE None
FailureRaises(error) == Truthy(error) /\ ~HasDict(error)
\* (a failed request rolled back: the page counter of a failed search call
\* taken back by one)
onRequestFailedRollsBack(i, error) ==
    /\ requests[i].method \in {"search", "getThing", "getThingFiles"}
    /\ search_page' = IF requests[i].method = "search" /\ search_page > FirstPage
                       THEN search_page - 1 ELSE search_page
    /\ dialogs' = IF FailureRaises(error) THEN <<>>
                  ELSE <<[text |-> ErrorMessage(error), detailed |-> DetailedText(error)]>>
    /\ raised' = IF FailureRaises(error) THEN "AttributeError" ELSE ""
    /\ Consumes(i)
    /\ files_of' = files_of
    /\ op' = "_onRequestFailed"
    /\ args' = <<error>>
    /\ emitted' = <<>>
    /\ loaded' = <<>>
    /\ UNCHANGED <<things, search_terms, thing_details, thing_files,
                   is_downloading, supported_file_types>>
onRequestFailed(i, error) ==
    /\ requests[i].method \in {"search", "getThing", "getThingFiles"}
    /\ dialogs' = IF FailureRaises(error) THEN <<>>
                  ELSE <<[text |-> ErrorMessage(error), detailed |-> DetailedText(error)]>>
    /\ raised' = IF FailureRaises(error) THEN "AttributeError" ELSE ""
    /\ Consumes(i)
    /\ files_of' = files_of
    /\ op' = "_onRequestFailed"
    /\ args' = <<error>>
    /\ emitted' = <<>>
    /\ loaded' = <<>>
    /\ UNCHANGED service

\* A download that fails: downloadThingFile (line 148) registers a success
\* callback only, so no code of the service runs.
downloadFailed(i) ==
    /\ requests[i].method = "downloadThingFile"
    /\ Consumes(i)
    /\ files_of' = files_of
    /\ op' = "downloadFailed"
    /\ args' = <<>>
    /\ emitted' = <<>>
    /\ loaded' = <<>>
    /\ dialogs' = <<>>
    /\ raised' = ""
    /\ UNCHANGED service

(***************************************************************************)
(* Specifications.                                                         *)
(***************************************************************************)
Next ==
    \/ updateSupportedFileTypes
    \/ \E terms \in Terms : search(terms)
    \/ addSearchPage
    \/ \E thing_id \in ThingIds : showThingDetails(thing_id)
    \/ hideThingDetails
    \/ \E file_id \in FileIds, file_name \in DownloadNames :
          downloadThingFile(file_id, file_name)
    \/ \E i \in 1..Len(requests), n \in 0..MaxItems :
          onSearchFinished(i, SearchReply(requests[i], n))
    \/ \E i \in 1..Len(requests) : onThingDetailsFinished(i, ThingReply(requests[i]))
    \/ \E i \in 1..Len(requests), files \in FileLists :
          onThingFilesFinished(i, files)
    \/ \E i \in 1..Len(requests), file_bytes \in FileBytes, stem \in TempStems :
          onDownloadFinished(i, file_bytes, stem)
    \/ \E i \in 1..Len(requests), error \in ErrorPayloads : onRequestFailed(i, error)
    \/ \E i \in 1..Len(requests) : downloadFailed(i)

Spec == Init /\ [][Next]_vars

\* The file type check alone, on every file list of at most MaxFiles files.
\* One inspection at a time: the next one starts when both replies are in.
NextFileTypes ==
    \/ updateSupportedFileTypes
    \/ \E thing_id \in ThingIds : requests = <<>> /\ showThingDetails(thing_id)
    \/ \E i \in 1..Len(requests) : onThingDetailsFinished(i, ThingReply(requests[i]))
    \/ \E i \in 1..Len(requests), files \in AllFileLists(MaxFiles) :
          onThingFilesFinished(i, files)
SpecFileTypes == Init /\ [][NextFileTypes]_vars

\* The inspections alone, every reply a success: showThingDetails for any
\* things, their metadata and files replies in any order.
NextInspections ==
    \/ updateSupportedFileTypes
    \/ \E thing_id \in ThingIds : showThingDetails(thing_id)
    \/ hideThingDetails
    \/ \E i \in 1..Len(requests) : onThingDetailsFinished(i, ThingReply(requests[i]))
    \/ \E i \in 1..Len(requests), files \in FileLists :
          onThingFilesFinished(i, files)
SpecInspections == Init /\ [][NextInspections]_vars

(***************************************************************************)
(* Properties.                                                             *)
(***************************************************************************)
IsPrefix(a, b) == Len(a) <= Len(b) /\ SubSeq(b, 1, Len(a)) = a
EndsWith(s, end) == Len(end) <= Len(s) /\ SubSeq(s, Len(s) - Len(end) + 1, Len(s)) = end
DownloadAwaited == \E i \in 1..Len(requests) : requests[i].method = "downloadThingFile"

\* C1: isDownloading is true right after downloadThingFile returns, and a
\* step takes it from true to false only if it is a run of the download
\* completion callback _onDownloadFinished; no other slot or callback does.
C1_DownloadingFlag ==
    [][ /\ op' = "downloadThingFile" => isDownloading'
        /\ (isDownloading /\ ~isDownloading') => op' = "_onDownloadFinished" ]_vars
\* A download was started and its completion callback has cleared the flag.
C1_Witness == op = "_onDownloadFinished" /\ ~isDownloading /\ ~DownloadAwaited

\* C2: the downloading flag is true strictly between the start of a download
\* and its completion, successful or failed: with no download awaited any
\* more, isDownloading is false.
C2_DownloadingOnlyWhileAwaited == isDownloading => DownloadAwaited

\* C3: when the success callback of the request made by the latest search()
\* has delivered N things, the results are exactly those N things, in the
\* order delivered, whatever was called or awaited before that search().
C3_SearchDeliversExactly ==
    (op = "_onSearchFinished" /\ answered[1].seq = latest_search) =>
        thingsList = Dicts(args[1])

\* C4: every step leaves the results with their previous contents as a prefix
\* (unchanged, or extended at the end, and then by a search success callback)
\* or empties them, and only search() empties them.
C4_ResultsGrowOrClear ==
    [][ /\ IsPrefix(thingsList, thingsList') \/ thingsList' = <<>>
        /\ (thingsList' # thingsList /\ thingsList' = <<>>) => op' = "search"
        /\ (thingsList' # thingsList /\ thingsList' # <<>>) =>
              op' = "_onSearchFinished" ]_vars
\* A second reply has extended a list that was not empty.
C4_Witness ==
    op = "_onSearchFinished" /\ args[1] # <<>> /\ Len(thingsList) > Len(args[1])

\* C5: search() calls the API for page 1; addSearchPage() calls it with the
\* terms stored by the latest search() (only search() stores terms, its
\* argument) and the page after that of the previous search call, whether
\* that call's reply has arrived, failed or is still awaited.
C5_PageSequence ==
    [][ /\ op' = "search" =>
              /\ Len(issued') = 1
              /\ issued'[1].method = "search"
              /\ issued'[1].page = 1
        /\ op' = "addSearchPage" =>
              /\ Len(issued') = 1
              /\ issued'[1].method = "search"
              /\ issued'[1].terms = search_terms
              /\ ~IsNone(last_search_call) =>
                    /\ issued'[1].terms = last_search_call[1].terms
                    /\ issued'[1].page = last_search_call[1].page + 1
        /\ search_terms' # search_terms =>
              /\ op' = "search"
              /\ search_terms' = args'[1] ]_vars
\* addSearchPage() has asked for page 2 of the terms of a search().
C5_Witness ==
    /\ op = "addSearchPage"
    /\ issued[1].terms \in Terms
    /\ issued[1].page = 2
    /\ Len(requests) = 2

\* C6 as stated: after a files success callback with list L the active files
\* are the files of L, in order, whose lower case text after the final "."
\* of the name is a supported file type.
AfterFinalDotIn(name, types) ==
    \E i \in 1..Len(name) :
        /\ name[i] = "."
        /\ \A j \in (i + 1)..Len(name) : name[j] # "."
        /\ Lower(SubSeq(name, i + 1, Len(name))) \in types
C6_AfterFinalDot ==
    [][ op' = "_onThingFilesFinished" =>
           activeThingFiles' =
              SelectSeq(Dicts(args'[1]),
                        LAMBDA f : AfterFinalDotIn(f.name, supported_file_types)) ]_vars
\* C6 as amended: the "." counts only if it is in the final path component
\* of the name and is neither the first nor the last character of that
\* component; with no supported file types cached the list is empty.
ExtensionIn(name, types) ==
    LET last == PathName(name)
    IN  \E i \in 2..(Len(last) - 1) :
            /\ last[i] = "."
            /\ \A j \in (i + 1)..Len(last) : last[j] # "."
            /\ Lower(SubSeq(last, i + 1, Len(last))) \in types
C6_SupportedFilesOnly ==
    [][ op' = "_onThingFilesFinished" =>
           /\ activeThingFiles' =
                 SelectSeq(Dicts(args'[1]),
                           LAMBDA f : ExtensionIn(f.name, supported_file_types))
           /\ supported_file_types = {} => activeThingFiles' = <<>> ]_vars
\* A reply with a supported and an unsupported file has left one of them.
C6_Witness ==
    /\ op = "_onThingFilesFinished"
    /\ Len(args[1]) = 2
    /\ Len(activeThingFiles) = 1
    /\ activeThingFiles[1].name = <<"b", ".", "S">>

\* C7: a failure callback raises nothing and shows exactly one dialog, for
\* every error payload: none, a record with or without a message, a raw value.
C7_FailureShowsOneDialog ==
    op = "_onRequestFailed" => (raised = "" /\ Len(dialogs) = 1)

\* C8: right after search(terms) the results are empty, the active thing is
\* absent, the page is 1, the stored terms are terms, exactly one new search
\* call for (terms, 1) is awaited, and the active files and the downloading
\* flag are as before.
C8_SearchResets ==
    [][ op' = "search" =>
           /\ thingsList' = <<>>
           /\ IsNone(activeThing')
           /\ ~hasActiveThing'
           /\ search_page' = 1
           /\ search_terms' = args'[1]
           /\ Len(issued') = 1
           /\ issued'[1].method = "search"
           /\ issued'[1].terms = args'[1]
           /\ issued'[1].page = 1
           /\ requests' = Append(requests, issued'[1])
           /\ activeThingFiles' = activeThingFiles
           /\ isDownloading' = isDownloading ]_vars
\* search() has run with active files present, which it has left.
C8_Witness == op = "search" /\ activeThingFiles # <<>> /\ thingsList = <<>>

\* C9: once the active thing is absent it becomes present only by the reply
\* to an inspection requested after it was last cleared.
C9_ActiveOnlyAfterNewInspection ==
    [][ (IsNone(activeThing) /\ ~IsNone(activeThing')) =>
           /\ op' = "_onThingDetailsFinished"
           /\ answered'[1].seq \notin stale ]_vars

\* C10: for every download request, whatever its file name, the completion
\* callback passes readLocalFile exactly one file, whose name ends in the
\* file name of that download's own downloadThingFile call and whose
\* contents are the bytes received.
C10_DownloadLoadsOwnFile ==
    op = "_onDownloadFinished" =>
       /\ Len(loaded) = 1
       /\ EndsWith(loaded[1].name, answered[1].file_name)
       /\ loaded[1].contents = args[1]

\* What the user interface can read of the service, and the page and terms
\* of the search.
bridge ==
    <<thingsList, search_page, search_terms, activeThing, hasActiveThing,
      activeThingFiles, isDownloading>>

\* C11: a failure callback of a search, page, metadata or files request
\* leaves the results, the page counter, the search terms, the active thing,
\* the active files and the downloading flag as they were: nothing is rolled
\* back, whatever the error and whether or not the handler raises.
C11_FailureChangesNothing ==
    [][ op' = "_onRequestFailed" =>
           /\ answered'[1].method \in {"search", "getThing", "getThingFiles"}
           /\ bridge' = bridge
           /\ supported_file_types' = supported_file_types ]_vars
\* The call of addSearchPage() for page 2 has failed and the page counter is
\* still 2.
C11_Witness ==
    /\ op = "_onRequestFailed"
    /\ answered[1].method = "search"
    /\ answered[1].page = 2
    /\ search_page = 2

\* C12: while at least one download started by downloadThingFile is still
\* awaited (its completion callback has not run), isDownloading is true,
\* also when a second download was started before the first completed.
C12_DownloadingWhileAwaited == DownloadAwaited => isDownloading

\* C13: the active files belong to the active thing: when the active thing
\* is present and every metadata and files request has delivered its
\* success reply, the active files were taken from the files reply for the
\* thing that is the active thing, whatever the order of the replies.
InspectionAwaited ==
    \E i \in 1..Len(requests) : requests[i].method \in {"getThing", "getThingFiles"}
C13_FilesOfActiveThing ==
    (hasActiveThing /\ ~InspectionAwaited) => files_of = activeThing[1].id

\* C14: the two requests of showThingDetails(id) are independent.
\* showThingDetails changes nothing and calls getThing and getThingFiles for
\* id; the metadata success callback changes the active thing only, the
\* files success callback the active files only, and a failure of either
\* request changes neither, so the part whose request succeeded is updated
\* and the other part keeps its value.
C14_InspectionPartsIndependent ==
    [][ /\ op' = "showThingDetails" =>
              /\ bridge' = bridge
              /\ supported_file_types' = supported_file_types
              /\ Len(issued') = 2
              /\ issued'[1].method = "getThing"
              /\ issued'[2].method = "getThingFiles"
              /\ issued'[1].thing_id = args'[1]
              /\ issued'[2].thing_id = args'[1]
        /\ op' = "_onThingDetailsFinished" =>
              /\ activeThing' = Some(args'[1].dict)
              /\ hasActiveThing'
              /\ <<thingsList, search_page, search_terms, activeThingFiles,
                    isDownloading, supported_file_types>>' =
                 <<thingsList, search_page, search_terms, activeThingFiles,
                   isDownloading, supported_file_types>>
        /\ op' = "_onThingFilesFinished" =>
              /\ activeThingFiles' =
                    Dicts(SupportedFiles(args'[1], supported_file_types))
              /\ <<thingsList, search_page, search_terms, activeThing,
                    hasActiveThing, isDownloading, supported_file_types>>' =
                 <<thingsList, search_page, search_terms, activeThing,
                   hasActiveThing, isDownloading, supported_file_types>>
        /\ (op' = "_onRequestFailed" /\
              answered'[1].method \in {"getThing", "getThingFiles"}) =>
              /\ activeThing' = activeThing
              /\ activeThingFiles' = activeThingFiles ]_vars
\* Of the only inspection, the files request has succeeded with files and
\* the metadata request has then failed: files present, no active thing.
C14_Witness ==
    /\ op = "_onRequestFailed"
    /\ answered[1].method = "getThing"
    /\ sent["getThing"] = 1
    /\ requests = <<>>
    /\ activeThingFiles # <<>>
    /\ ~hasActiveThing

\* C15: hideThingDetails() makes the active thing absent, calls nothing and
\* changes nothing else (results, page, terms, active files and downloading
\* flag are as before, so files may stay while no thing is active); called
\* with the active thing already absent, as a second call in a row is, it
\* leaves the state as it was.
C15_HideClearsActiveThingOnly ==
    [][ op' = "hideThingDetails" =>
           /\ IsNone(activeThing')
           /\ ~hasActiveThing'
           /\ issued' = <<>>
           /\ requests' = requests
           /\ <<thingsList, search_page, search_terms, activeThingFiles,
                 isDownloading, supported_file_types>>' =
              <<thingsList, search_page, search_terms, activeThingFiles,
                isDownloading, supported_file_types>>
           /\ ~hasActiveThing => bridge' = bridge ]_vars
\* hideThingDetails() has run during a download with files shown: the files
\* and the flag are left, the active thing is absent.
C15_Witness ==
    /\ op = "hideThingDetails"
    /\ activeThingFiles # <<>>
    /\ isDownloading
    /\ ~hasActiveThing

\* C16: no property the user interface reads changes silently: a step that
\* changes the results emits thingsChanged, one that changes the active
\* thing or hasActiveThing emits activeThingChanged, one that changes the
\* active files emits activeThingFilesChanged and one that changes
\* isDownloading emits downloadingStateChanged, in that step and with the
\* new value already stored when the signal (its last emission) goes out.
Notifies(signals, signal, value) ==
    \E k \in 1..Len(signals) :
        /\ signals[k] = Emit(signal, value)
        /\ \A j \in (k + 1)..Len(signals) : signals[j].signal # signal
C16_NoSilentChange ==
    [][ /\ thingsList' # thingsList =>
              Notifies(emitted', "thingsChanged", thingsList')
        /\ (activeThing' # activeThing \/ hasActiveThing' # hasActiveThing) =>
              Notifies(emitted', "activeThingChanged", activeThing')
        /\ activeThingFiles' # activeThingFiles =>
              Notifies(emitted', "activeThingFilesChanged", activeThingFiles')
        /\ isDownloading' # isDownloading =>
              Notifies(emitted', "downloadingStateChanged", isDownloading') ]_vars
\* The first downloadThingFile() has taken isDownloading from false to true
\* and emitted downloadingStateChanged with true stored.
C16_Witness ==
    /\ op = "downloadThingFile"
    /\ sent["downloadThingFile"] = 1
    /\ isDownloading
    /\ emitted = <<Emit("downloadingStateChanged", TRUE)>>

====
